---- MODULE Spec2Model ----
(***************************************************************************)
(* A model of the JSON API serializer of kudu-serializer-jsonapi           *)
(* (toJSON, errorsToJSON, buildResource, buildCompoundDocuments,          *)
(* flatten).  Spec makes one call of toJSON or of errorsToJSON; SpecWalk   *)
(* runs the recursion of buildCompoundDocuments and flatten step by step.  *)
(*                                                                         *)
(* JavaScript values are tagged records: every value carries its kind in   *)
(* field k, so that values of different kinds can be compared.  Objects    *)
(* and model instances carry their own enumerable properties in field f    *)
(* (a function from property names to values); an instance also carries    *)
(* the name of its constructor in field ctor.  A property an object does   *)
(* not have reads as Undefined, as in JavaScript.                          *)
(***************************************************************************)
EXTENDS Integers, Sequences, FiniteSets, TLC

VARIABLES method,     \* the function of the module that is called
          instance,   \* toJSON: the first argument of the call
          options,    \* toJSON: the options object: own keys among stringify, requireId
          errors,     \* errorsToJSON: the first argument of the call
          flag,       \* errorsToJSON: the argument given for stringify
          pc,         \* "idle" before the call, "done" after it
          result,     \* what toJSON produced: a returned value or a thrown error
          response,   \* what errorsToJSON returned
          graph,      \* step by step: instance -> the instances its array holds
          stack,      \* step by step: the frames of the calls in progress
          calls,      \* step by step: the calls of buildCompoundDocuments so far
          flattens    \* step by step: the calls of flatten so far

vars == <<method, instance, options, errors, flag, pc, result, response,
          graph, stack, calls, flattens>>

---------------------------------------------------------------------------
(* JavaScript values *)

Undefined == [k |-> "undefined"]
Null == [k |-> "null"]
Str(s) == [k |-> "str", v |-> s]
Num(n) == [k |-> "num", v |-> n]
Bool(b) == [k |-> "bool", v |-> b]
Arr(items) == [k |-> "arr", items |-> items]
Obj(f) == [k |-> "obj", f |-> f]
Inst(ctor, f) == [k |-> "inst", ctor |-> ctor, f |-> f]

\* The empty property map.
NoProps == [key \in {} |-> Undefined]

\* ToBoolean: what `if ( v )`, `!v` and `a && b` test.
Truthy(v) ==
  CASE v.k = "undefined" -> FALSE
    [] v.k = "null" -> FALSE
    [] v.k = "str" -> v.v # ""
    [] v.k = "num" -> v.v # 0
    [] v.k = "bool" -> v.v
    [] OTHER -> TRUE

IsArray(v) == v.k = "arr"

\* v[ key ] for an own property; a string or a missing property gives Undefined.
Prop(v, key) ==
  IF v.k \in {"inst", "obj"} /\ key \in DOMAIN v.f THEN v.f[key] ELSE Undefined

\* v.hasOwnProperty(key)
hasOwnProperty(v, key) == v.k \in {"inst", "obj"} /\ key \in DOMAIN v.f

\* A parameter default: `param = dflt` applies when the argument is undefined.
Default(arg, dflt) == IF arg = Undefined THEN dflt ELSE arg

\* a === b on the primitive values the serializer compares (type and id).
StrictEq(a, b) == a = b

\* An outcome of a call: a returned value or a thrown Error.
Return(v) == [k |-> "return", value |-> v]
Throw(msg) == [k |-> "throw", message |-> msg]
IsThrow(r) == r.k = "throw"

MissingId == "Expected an \"id\" property."

---------------------------------------------------------------------------
(* The model constructors the instances are made with: the three models of *)
(* the test suite (test, child, single).  `label` is added to `test` so    *)
(* that a property declared with public: true exists beside one declared   *)
(* without the flag (name) and one declared with public: false (private).  *)

Models == {"test", "child", "single"}

\* constructor.singular is the name the model was created with.
singular(ctor) == ctor

\* constructor.plural: the name followed by "s".
plural(ctor) == ctor \o "s"

\* constructor.schema.properties: property name -> its `public` flag.
properties(ctor) ==
  CASE ctor = "test" ->
         [name |-> Undefined, private |-> Bool(FALSE), label |-> Bool(TRUE)]
    [] ctor = "child" -> [name |-> Undefined]
    [] OTHER -> [name |-> Undefined]

\* constructor.schema.relationships || {}, in the order of Object.keys.
relationshipSchema(ctor) ==
  CASE ctor = "test" ->
         << [key |-> "children", type |-> "child", hasMany |-> TRUE],
            [key |-> "child", type |-> "single", hasMany |-> FALSE] >>
    [] ctor = "child" ->
         << [key |-> "deep", type |-> "single", hasMany |-> FALSE] >>
    [] OTHER -> << >>

\* The names the relationship schema declares.
RelationshipKeys(ctor) ==
  {relationshipSchema(ctor)[i].key : i \in 1..Len(relationshipSchema(ctor))}

\* item.constructor.schema is set for a model instance and undefined for a string.
HasSchema(item) == item.k = "inst"

---------------------------------------------------------------------------
(* buildResource *)

\* IsSerialized without its test of the `public` flag.
IsSerialized_IgnoresPublic(ctor, key) == key \in DOMAIN properties(ctor)

\* keySchema && ( keySchema.public === true || keySchema.public === undefined )
IsSerialized(ctor, key) ==
  /\ key \in DOMAIN properties(ctor)
  /\ \/ properties(ctor)[key] = Bool(TRUE)
     \/ properties(ctor)[key] = Undefined

\* Object.keys(instance).reduce(...): the own properties the schema lets through.
Attributes(inst) ==
  Obj([key \in {q \in DOMAIN inst.f : IsSerialized(inst.ctor, q)} |-> inst.f[key]])

\* The "links" member of a relationship object.
Links(inst, key) ==
  Obj([self |-> Str("/" \o plural(inst.ctor) \o "/" \o Prop(inst, "id").v
                      \o "/relationships/" \o key),
       related |-> Str("/" \o plural(inst.ctor) \o "/" \o Prop(inst, "id").v
                      \o "/" \o key)])

\* LinksMember giving links of empty strings to an instance without identifier.
LinksMember_EmptyStrings(inst, key) ==
  IF Truthy(Prop(inst, "id"))
    THEN [links |-> Links(inst, key)]
    ELSE [links |-> Obj([self |-> Str(""), related |-> Str("")])]

\* if ( instance.id ) { relationship.links = ... }
LinksMember(inst, key) ==
  IF Truthy(Prop(inst, "id")) THEN [links |-> Links(inst, key)] ELSE NoProps

\* { id: item.id ? item.id : item, type }
ResourceIdentifier(item, type) ==
  Obj([id |-> IF Truthy(Prop(item, "id")) THEN Prop(item, "id") ELSE item,
       type |-> Str(type)])

\* DataMember leaving `data` out for an empty array.
DataMember_OmitEmptyArray(nested, type) ==
  IF IsArray(nested) /\ Len(nested.items) # 0
    THEN [data |-> Arr([i \in 1..Len(nested.items) |->
                          ResourceIdentifier(nested.items[i], type)])]
    ELSE IF Truthy(nested) /\ ~IsArray(nested)
      THEN [data |-> ResourceIdentifier(nested, type)]
      ELSE NoProps

\* if ( Array.isArray(nested) ) { relationship.data = nested.map(...) }
\* else if ( nested ) { relationship.data = { ... } }
DataMember(nested, type) ==
  IF IsArray(nested)
    THEN [data |-> Arr([i \in 1..Len(nested.items) |->
                          ResourceIdentifier(nested.items[i], type)])]
    ELSE IF Truthy(nested)
      THEN [data |-> ResourceIdentifier(nested, type)]
      ELSE NoProps

\* One step of the reduce over Object.keys(relationshipSchema).
Relationship(inst, rel) ==
  Obj(LinksMember(inst, rel.key) @@ DataMember(Prop(inst, rel.key), rel.type))

\* Relationships leaving out the names whose relationship object is empty.
Relationships_OmitEmpty(inst) ==
  [key \in {q \in RelationshipKeys(inst.ctor) :
              Truthy(Prop(inst, "id")) \/ Truthy(Prop(inst, q))} |->
     Relationship(inst,
       CHOOSE rel \in {relationshipSchema(inst.ctor)[i] :
                         i \in 1..Len(relationshipSchema(inst.ctor))} :
         rel.key = key)]

\* The object the reduce builds: one relationship object per declared name.
Relationships(inst) ==
  [key \in RelationshipKeys(inst.ctor) |->
     Relationship(inst,
       CHOOSE rel \in {relationshipSchema(inst.ctor)[i] :
                         i \in 1..Len(relationshipSchema(inst.ctor))} :
         rel.key = key)]

\* if ( Object.keys(relationships).length ) { resource.relationships = ... }
RelationshipsMember(relationships) ==
  IF DOMAIN relationships # {}
    THEN [relationships |-> Obj(relationships)]
    ELSE NoProps

\* buildResource requiring the identifier whatever requireId is.
buildResource_RequireAlways(inst, requireId) ==
  IF ~hasOwnProperty(inst, "id")
    THEN Throw(MissingId)
    ELSE Return(Obj([type |-> Str(singular(inst.ctor)),
                     id |-> Prop(inst, "id"),
                     attributes |-> Attributes(inst)]
                    @@ RelationshipsMember(Relationships(inst))))

\* buildResource( instance, requireId = true ): the resource object, or the
\* Error thrown when an identifier is required and the instance has none.
buildResource(inst, requireId) ==
  IF Truthy(Default(requireId, Bool(TRUE))) /\ ~hasOwnProperty(inst, "id")
    THEN Throw(MissingId)
    ELSE Return(Obj([type |-> Str(singular(inst.ctor)),
                     id |-> Prop(inst, "id"),
                     attributes |-> Attributes(inst)]
                    @@ RelationshipsMember(Relationships(inst))))

---------------------------------------------------------------------------
(* buildCompoundDocuments and flatten *)

\* flatten( arr ): deeply nested arrays made one flat array.
RECURSIVE flatten(_)
flatten(arr) ==
  IF Len(arr) = 0
    THEN << >>
    ELSE LET val == Head(arr)
         IN (IF IsArray(val) THEN flatten(val.items) ELSE << val >>)
              \o flatten(Tail(arr))

RECURSIVE buildCompoundDocuments(_)

\* The callback of the first nested.map: the compound documents of an item
\* that has a schema, undefined otherwise.
NestedCompound(item) ==
  IF Truthy(item) /\ HasSchema(item)
    THEN Arr(buildCompoundDocuments(item))
    ELSE Undefined

\* NestedResource without its need of an `id` on the item: an identifier
\* string is given an entry of its own.
NestedResource_StringsToo(item) ==
  IF Truthy(item) /\ Truthy(Prop(item, "id"))
    THEN buildResource(item, Undefined).value
    ELSE IF item.k = "str"
      THEN Obj([type |-> Null, id |-> item, attributes |-> Obj(NoProps)])
      ELSE Undefined

\* The callback of the second nested.map: the resource object of an item
\* that has an identifier, undefined otherwise.  buildResource is called
\* with its default requireId and returns: the item has an `id`.
NestedResource(item) ==
  IF Truthy(item) /\ Truthy(Prop(item, "id"))
    THEN buildResource(item, Undefined).value
    ELSE Undefined

\* The body of the forEach for one relationship name: what it adds to `included`.
IncludedOfKey(inst, key) ==
  IF IsArray(Prop(inst, key))
    THEN [i \in 1..Len(Prop(inst, key).items) |->
            NestedCompound(Prop(inst, key).items[i])]
           \o [i \in 1..Len(Prop(inst, key).items) |->
                 NestedResource(Prop(inst, key).items[i])]
    ELSE IF Truthy(Prop(inst, key)) /\ Truthy(Prop(Prop(inst, key), "id"))
      THEN << NestedResource(Prop(inst, key)) >>
      ELSE << >>

\* `included` after the forEach over the first n relationship names.
RECURSIVE IncludedUpTo(_, _)
IncludedUpTo(inst, n) ==
  IF n = 0
    THEN << >>
    ELSE IncludedUpTo(inst, n - 1)
           \o IncludedOfKey(inst, relationshipSchema(inst.ctor)[n].key)

\* buildCompoundDocuments( instance ): flatten(included.filter(( item ) => item))
buildCompoundDocuments(inst) ==
  flatten(SelectSeq(IncludedUpTo(inst, Len(relationshipSchema(inst.ctor))),
                    Truthy))

---------------------------------------------------------------------------
(* toJSON *)

\* JSON.stringify followed by JSON.parse: the JSON value a text denotes.
\* Members whose value is undefined are left out, undefined array elements
\* become null, and an instance is written as its own properties.
RECURSIVE JSONValue(_)
JSONValue(v) ==
  CASE v.k \in {"obj", "inst"} ->
         Obj([key \in {q \in DOMAIN v.f : v.f[q] # Undefined} |->
                JSONValue(v.f[key])])
    [] v.k = "arr" ->
         Arr([i \in 1..Len(v.items) |->
                IF v.items[i] = Undefined THEN Null ELSE JSONValue(v.items[i])])
    [] OTHER -> v

\* JSON.stringify(v): a text, held as the JSON value it denotes.
stringify(v) == [k |-> "text", json |-> JSONValue(v)]

\* RemoveDuplicates comparing the entries by reference: each entry is a
\* resource object of its own, so none is dropped.
RemoveDuplicates_ByReference(included, n) == SubSeq(included, 1, n)

\* RemoveDuplicates with a later entry taking the place of the entry kept
\* for its type and id.
RECURSIVE RemoveDuplicates_KeepLast(_, _)
RemoveDuplicates_KeepLast(included, n) ==
  IF n = 0
    THEN << >>
    ELSE LET arr == RemoveDuplicates_KeepLast(included, n - 1)
             item == included[n]
             Same(j) == /\ StrictEq(arr[j].f.type, item.f.type)
                        /\ StrictEq(arr[j].f.id, item.f.id)
         IN IF ~ \E j \in 1..Len(arr) : Same(j)
              THEN Append(arr, item)
              ELSE [j \in 1..Len(arr) |-> IF Same(j) THEN item ELSE arr[j]]

\* The reduce that removes duplicates from the first n entries of `included`:
\* an entry is kept unless an entry kept before has its type and its id.
RECURSIVE RemoveDuplicates(_, _)
RemoveDuplicates(included, n) ==
  IF n = 0
    THEN << >>
    ELSE LET arr == RemoveDuplicates(included, n - 1)
             item == included[n]
         IN IF ~ \E j \in 1..Len(arr) :
                   /\ StrictEq(arr[j].f.type, item.f.type)
                   /\ StrictEq(arr[j].f.id, item.f.id)
              THEN Append(arr, item)
              ELSE arr

\* IncludedMember without its test of included.length.
IncludedMember_Always(included) ==
  [included |-> Arr(RemoveDuplicates(included, Len(included)))]

\* if ( included && included.length ) { ...; doc.included = included; }
IncludedMember(included) ==
  IF Len(included) # 0
    THEN [included |-> Arr(RemoveDuplicates(included, Len(included)))]
    ELSE NoProps

\* The first thrown Error of a sequence of outcomes.
FirstThrow(seq) ==
  seq[CHOOSE i \in 1..Len(seq) :
        /\ IsThrow(seq[i])
        /\ \A j \in 1..(i - 1) : ~IsThrow(seq[j])]

\* instance.map(buildResource): map calls back with (element, index, array),
\* so buildResource receives the index as requireId.
MapBuildResource(items) ==
  [i \in 1..Len(items) |-> buildResource(items[i], Num(i - 1))]

\* MapOutcome with the resource objects in reverse order.
MapOutcome_Reversed(outcomes) ==
  IF \E i \in 1..Len(outcomes) : IsThrow(outcomes[i])
    THEN FirstThrow(outcomes)
    ELSE Return(Arr([i \in 1..Len(outcomes) |->
                       outcomes[Len(outcomes) + 1 - i].value]))

\* What instance.map(buildResource) comes to: the array of the resource
\* objects, or the first Error a call threw.
MapOutcome(outcomes) ==
  IF \E i \in 1..Len(outcomes) : IsThrow(outcomes[i])
    THEN FirstThrow(outcomes)
    ELSE Return(Arr([i \in 1..Len(outcomes) |-> outcomes[i].value]))

\* instance.map(buildCompoundDocuments)
MapBuildCompoundDocuments(items) ==
  [i \in 1..Len(items) |-> Arr(buildCompoundDocuments(items[i]))]

\* toJSON once doc.data is built (or buildResource has thrown) and the
\* compound documents are collected: doc, or the Error.
Document(data, included) ==
  IF IsThrow(data)
    THEN data
    ELSE Return(Obj([data |-> data.value] @@ IncludedMember(included)))

\* The array branch of toJSON.
DocOfArray(items) ==
  Document(MapOutcome(MapBuildResource(items)),
           flatten(MapBuildCompoundDocuments(items)))

\* The branch of toJSON for one instance.
DocOfInstance(inst, requireId) ==
  Document(buildResource(inst, requireId), buildCompoundDocuments(inst))

\* Rendered without its test of the stringify option.
Rendered_IgnoresFlag(opts, v) == stringify(v)

\* stringify ? JSON.stringify(v) : v
Rendered(opts, v) ==
  IF Truthy(Default(Prop(opts, "stringify"), Bool(TRUE))) THEN stringify(v) ELSE v

\* return stringify ? JSON.stringify(doc) : doc, unless an Error was thrown.
Output(opts, doc) ==
  IF IsThrow(doc) THEN doc ELSE Return(Rendered(opts, doc.value))

\* toJSON( instance = null, { stringify = true, requireId = true } = {} )
toJSON(inst, opts) ==
  IF ~Truthy(Default(inst, Null))
    THEN Return(Rendered(opts, Null))
    ELSE Output(opts,
                IF IsArray(inst)
                  THEN DocOfArray(inst.items)
                  ELSE DocOfInstance(inst, Default(Prop(opts, "requireId"),
                                                   Bool(TRUE))))

---------------------------------------------------------------------------
(* errorsToJSON *)

\* if ( !Array.isArray(errors) ) { errors = [ errors ]; }
Normalized(errs) == IF ~IsArray(errs) THEN << errs >> ELSE errs.items

\* ErrorObject without the status member.
ErrorObject_DetailOnly(error) == Obj([detail |-> Prop(error, "message")])

\* ( error ) => ({ detail: error.message, status: error.status })
ErrorObject(error) ==
  Obj([detail |-> Prop(error, "message"), status |-> Prop(error, "status")])

\* const response = { errors }, after errors = errors.map(...)
Response(list) ==
  Obj([errors |-> Arr([i \in 1..Len(list) |-> ErrorObject(list[i])])])

\* errorsToJSON( errors, stringify = true )
errorsToJSON(errs, stringifyArg) ==
  IF Truthy(Default(stringifyArg, Bool(TRUE)))
    THEN stringify(Response(Normalized(errs)))
    ELSE Response(Normalized(errs))

---------------------------------------------------------------------------
(* The arguments the calls are made with.  Identifiers are non-empty       *)
(* strings; the elements of an array-valued relationship are instances or  *)
(* identifier strings.                                                     *)

\* The longest array held by a relationship, and the longest array given to toJSON.
MaxNestedLen == 2
MaxArrayLen == 2

\* Marks a property left out when an instance is put together.
Absent == [k |-> "absent"]

\* The property `key` with value `val`, or no property when val is Absent.
WithOpt(key, val) == IF val = Absent THEN NoProps ELSE (key :> val)

\* All sequences over S of length at most n.
SeqsUpTo(S, n) == UNION {[1..m -> S] : m \in 0..n}

child1 == Inst("child", [id |-> Str("2"), name |-> Str("child1")])
child1b == Inst("child", [id |-> Str("2"), name |-> Str("other")])
single2 == Inst("single", [id |-> Str("2"), name |-> Str("child")])
single4 == Inst("single", [id |-> Str("4"), name |-> Str("deep")])
singleNoId == Inst("single", [name |-> Str("new")])
child3 == Inst("child", [id |-> Str("3"), name |-> Str("child2"), deep |-> single4])
childNoId == Inst("child", [name |-> Str("new"), deep |-> single4])
test5 ==
  Inst("test", [id |-> Str("5"), name |-> Str("inner"),
                children |-> Arr(<< child1 >>), child |-> single4])

\* What an array-valued relationship may hold.
NestedItems == {Str("2"), child1, child1b, child3, childNoId, single2, test5}

\* The values of the relationship `children` of a test instance.
ChildrenValues ==
  {Absent, Null} \cup {Arr(s) : s \in SeqsUpTo(NestedItems, MaxNestedLen)}

\* The values of the relationship `child` of a test instance.
ChildValues ==
  {Absent, Null, Str("2"), single2, singleNoId, child3, childNoId, test5}

\* Test instances that differ in their relationships.
WithRelationships ==
  {Inst("test", WithOpt("id", i) @@ [name |-> Str("test")]
                  @@ WithOpt("children", c) @@ WithOpt("child", d)) :
     i \in {Absent, Str("1")}, c \in ChildrenValues, d \in ChildValues}

AttributeValues == {Absent, Str("v"), Null}

\* Test instances that differ in their own properties.
WithAttributes ==
  {Inst("test", WithOpt("id", i) @@ WithOpt("name", n) @@ WithOpt("private", p)
                  @@ WithOpt("excluded", e) @@ WithOpt("label", l)) :
     i \in {Absent, Str("1")}, n \in AttributeValues, p \in AttributeValues,
     e \in AttributeValues, l \in AttributeValues}

\* All single instances a call is made with.
Instances ==
  WithRelationships \cup WithAttributes
    \cup {child1, single2, singleNoId, child3, childNoId, test5}

\* The elements of the arrays a call is made with.
ArrayElements ==
  { Inst("test", [id |-> Str("1"), name |-> Str("1")]),
    Inst("test", [name |-> Str("new")]),
    Inst("test", [id |-> Str("1"), name |-> Str("test"),
                  children |-> Arr(<< child1 >>)]),
    Inst("test", [id |-> Str("3"), name |-> Str("test"),
                  children |-> Arr(<< child1b, Str("2") >>)]),
    Inst("test", [id |-> Str("3"), name |-> Str("test"), child |-> child3]),
    Inst("test", [name |-> Str("new"), children |-> Arr(<< childNoId >>)]),
    single2,
    singleNoId }

\* The first argument of toJSON: nothing, null, an instance or an array.
Inputs ==
  {Undefined, Null} \cup Instances
    \cup {Arr(s) : s \in SeqsUpTo(ArrayElements, MaxArrayLen)}

FlagValues == {Absent, Bool(TRUE), Bool(FALSE)}

\* The second argument of toJSON: nothing, or an object with some options.
OptionsValues ==
  {Undefined} \cup {Obj(WithOpt("stringify", s) @@ WithOpt("requireId", r)) :
                      s \in FlagValues, r \in FlagValues}

\* The longest array of errors given to errorsToJSON.
MaxErrors == 2

\* Error-like objects: an Error with its message, and Errors that were given
\* a status as well.
ErrorLikes ==
  { Obj([message |-> Str("test")]),
    Obj([message |-> Str("not found"), status |-> Str("404")]),
    Obj([message |-> Str(""), status |-> Str("500")]) }

\* The first argument of errorsToJSON: one Error-like object or an array of them.
ErrorInputs == ErrorLikes \cup {Arr(s) : s \in SeqsUpTo(ErrorLikes, MaxErrors)}

\* The second argument of errorsToJSON: nothing, true or false.
StringifyArgs == {Undefined, Bool(TRUE), Bool(FALSE)}

---------------------------------------------------------------------------
(* The calls *)

NoResult == [k |-> "none"]

\* A call of toJSON is about to be made.
InitToJSON ==
  /\ method = "toJSON"
  /\ instance \in Inputs
  /\ options \in OptionsValues
  /\ errors = Undefined
  /\ flag = Undefined

\* A call of errorsToJSON is about to be made.
InitErrorsToJSON ==
  /\ method = "errorsToJSON"
  /\ instance = Undefined
  /\ options = Undefined
  /\ errors \in ErrorInputs
  /\ flag \in StringifyArgs

\* What the step-by-step run of the collection keeps.
walk == <<graph, stack, calls, flattens>>

Init ==
  /\ InitToJSON \/ InitErrorsToJSON
  /\ pc = "idle"
  /\ result = NoResult
  /\ response = NoResult
  /\ graph = << >>
  /\ stack = << >>
  /\ calls = 0
  /\ flattens = 0

\* Serialize.toJSON(instance, options)
CallToJSON ==
  /\ method = "toJSON"
  /\ pc = "idle"
  /\ pc' = "done"
  /\ result' = toJSON(instance, options)
  /\ UNCHANGED <<method, instance, options, errors, flag, response>>
  /\ UNCHANGED walk

\* Serialize.errorsToJSON(errors, flag)
CallErrorsToJSON ==
  /\ method = "errorsToJSON"
  /\ pc = "idle"
  /\ pc' = "done"
  /\ response' = errorsToJSON(errors, flag)
  /\ UNCHANGED <<method, instance, options, errors, flag, result>>
  /\ UNCHANGED walk

Next == CallToJSON \/ CallErrorsToJSON

Spec == Init /\ [][Next]_vars

---------------------------------------------------------------------------
(* toJSON on one instance, step by step: the calls buildCompoundDocuments  *)
(* makes to itself and to flatten, as frames on the call stack.  The       *)
(* instances are the nodes of a graph that may hold cycles: graph[n] is    *)
(* the set of instances in the array-valued relationship `children` of n,  *)
(* the array holding them in the order of NodeOrder.  Every instance is a  *)
(* test instance with an identifier.  Single-valued relationships are left *)
(* out: buildCompoundDocuments makes no call to itself for one.            *)

\* The identifiers of the instances, in the order the arrays hold them.
NodeOrder == << "1", "2", "3" >>

Nodes == {NodeOrder[i] : i \in 1..Len(NodeOrder)}

\* The instance toJSON is called with.
Root == NodeOrder[1]

\* The graphs: every instance with at most MaxNestedLen instances in its array.
Graphs == [Nodes -> {S \in SUBSET Nodes : Cardinality(S) <= MaxNestedLen}]

\* The call stack holds at most this many frames of buildCompoundDocuments:
\* one more than a chain without a repeated instance can have.
MaxDepth == Len(NodeOrder) + 1

\* The first instance of a non-empty set, in the order of NodeOrder.
First(S) ==
  NodeOrder[CHOOSE i \in 1..Len(NodeOrder) :
              /\ NodeOrder[i] \in S
              /\ \A j \in 1..(i - 1) : NodeOrder[j] \notin S]

\* const nested = instance[ key ], the array of the instances n holds.
NestedOf(n) ==
  LET Held(m) == m \in graph[n]
  IN SelectSeq(NodeOrder, Held)

\* NestedWithSchema with the instance itself among the items it holds.
NestedWithSchema_Self(n) == graph[n] \cup {n}

\* The items of nested for which `item && item.constructor.schema` holds:
\* every instance the array holds.
NestedWithSchema(n) == graph[n]

\* buildResource( item ) for an instance of the graph, reduced to its type
\* and id.
Resource(n) == Obj([type |-> Str("test"), id |-> Str(n)])

\* The frame of a call buildCompoundDocuments( n ): the items the first map
\* has yet to visit, and what its callback has returned so far.
CompoundFrame(n) ==
  [fn |-> "buildCompoundDocuments", node |-> n, todo |-> NestedWithSchema(n),
   mapped |-> << >>]

\* The frame of a call flatten( arr ): the loop index and `flat`.
FlattenFrame(arr) == [fn |-> "flatten", arr |-> arr, i |-> 1, flat |-> << >>]

\* The frame of the call in progress.
Top == stack[Len(stack)]

\* The number of calls of buildCompoundDocuments in progress.
Depth ==
  Cardinality({i \in 1..Len(stack) : stack[i].fn = "buildCompoundDocuments"})

\* included.filter(( item ) => item), once both maps of the frame are done.
Included(frame) ==
  SelectSeq(frame.mapped
              \o [i \in 1..Len(NestedOf(frame.node)) |->
                    Resource(NestedOf(frame.node)[i])],
            Truthy)

\* What the step-by-step run leaves alone: the arguments of the call.
arguments == <<method, instance, options, errors, flag, response, graph>>

\* toJSON( instance ) has entered buildCompoundDocuments( instance ).
InitWalk ==
  /\ method = "toJSON"
  /\ instance = Inst("test", [id |-> Str(Root)])
  /\ options = Obj([stringify |-> Bool(FALSE)])
  /\ errors = Undefined
  /\ flag = Undefined
  /\ pc = "collecting"
  /\ result = NoResult
  /\ response = NoResult
  /\ graph \in Graphs
  /\ stack = << CompoundFrame(Root) >>
  /\ calls = 1
  /\ flattens = 0

\* The callback of the first map calls buildCompoundDocuments( item ).
Recurse ==
  /\ pc = "collecting"
  /\ Top.fn = "buildCompoundDocuments"
  /\ Top.todo # {}
  /\ Depth < MaxDepth
  /\ stack' = Append([stack EXCEPT ![Len(stack)].todo = @ \ {First(Top.todo)}],
                     CompoundFrame(First(Top.todo)))
  /\ calls' = calls + 1
  /\ UNCHANGED <<pc, result, flattens, arguments>>

\* return flatten(included.filter(...)): the call of flatten.
CallFlatten ==
  /\ pc = "collecting"
  /\ Top.fn = "buildCompoundDocuments"
  /\ Top.todo = {}
  /\ stack' = Append(stack, FlattenFrame(Included(Top)))
  /\ flattens' = flattens + 1
  /\ UNCHANGED <<pc, result, calls, arguments>>

\* flatten: val is an array, flatten( val ) is called.
FlattenCall ==
  /\ pc = "collecting"
  /\ Top.fn = "flatten"
  /\ Top.i <= Len(Top.arr)
  /\ IsArray(Top.arr[Top.i])
  /\ stack' = Append(stack, FlattenFrame(Top.arr[Top.i].items))
  /\ flattens' = flattens + 1
  /\ UNCHANGED <<pc, result, calls, arguments>>

\* flatten: val is no array, flat.push( val ).
FlattenPush ==
  /\ pc = "collecting"
  /\ Top.fn = "flatten"
  /\ Top.i <= Len(Top.arr)
  /\ ~IsArray(Top.arr[Top.i])
  /\ stack' = [stack EXCEPT ![Len(stack)].flat = Append(@, Top.arr[Top.i]),
                            ![Len(stack)].i = @ + 1]
  /\ UNCHANGED <<pc, result, calls, flattens, arguments>>

\* flatten returns flat to the flatten that called it: flat = flat.concat(...).
FlattenReturn ==
  /\ pc = "collecting"
  /\ Top.fn = "flatten"
  /\ Top.i > Len(Top.arr)
  /\ stack[Len(stack) - 1].fn = "flatten"
  /\ stack' = [SubSeq(stack, 1, Len(stack) - 1)
                 EXCEPT ![Len(stack) - 1].flat = @ \o Top.flat,
                        ![Len(stack) - 1].i = @ + 1]
  /\ UNCHANGED <<pc, result, calls, flattens, arguments>>

\* flatten returns flat to buildCompoundDocuments, which returns it: to the
\* callback of the first map, or to toJSON, which returns the document.
ReturnCompound ==
  /\ pc = "collecting"
  /\ Top.fn = "flatten"
  /\ Top.i > Len(Top.arr)
  /\ stack[Len(stack) - 1].fn = "buildCompoundDocuments"
  /\ IF Len(stack) = 2
       THEN /\ stack' = << >>
            /\ pc' = "done"
            /\ result' = Return(Obj([data |-> Resource(Root)]
                                      @@ IncludedMember(Top.flat)))
       ELSE /\ stack' = [SubSeq(stack, 1, Len(stack) - 2)
                           EXCEPT ![Len(stack) - 2].mapped =
                                    Append(@, Arr(Top.flat))]
            /\ UNCHANGED <<pc, result>>
  /\ UNCHANGED <<calls, flattens, arguments>>

NextWalk ==
  \/ Recurse
  \/ CallFlatten
  \/ FlattenCall
  \/ FlattenPush
  \/ FlattenReturn
  \/ ReturnCompound

\* A call runs on until it returns or the stack is exhausted.
SpecWalk == InitWalk /\ [][NextWalk]_vars /\ WF_vars(NextWalk)

---------------------------------------------------------------------------
(* What the properties below speak of *)

\* The call has returned a document.  A text result is read through the
\* JSON value it denotes.
Doc == IF result.value.k = "text" THEN result.value.json ELSE result.value

HasDoc == pc = "done" /\ result.k = "return" /\ Doc.k = "obj"

\* The call has thrown the missing-identifier Error.
ThrewMissingId == pc = "done" /\ result = Throw(MissingId)

\* The value the caller gave for requireId, if any.
RequireIdGiven == Prop(options, "requireId")

\* Each top-level instance of the input with the resource object `data` holds for it.
DataPairs ==
  IF IsArray(instance)
    THEN {<<instance.items[i], Doc.f.data.items[i]>> : i \in 1..Len(instance.items)}
    ELSE {<<instance, Doc.f.data>>}

\* The top-level instances of the input.
TopInstances ==
  IF IsArray(instance)
    THEN {instance.items[i] : i \in 1..Len(instance.items)}
    ELSE {instance}

\* The instances a relationship value holds: itself, or the instances among
\* the elements of an array.
InstancesIn(v) ==
  IF IsArray(v)
    THEN {v.items[i] : i \in {j \in 1..Len(v.items) : v.items[j].k = "inst"}}
    ELSE IF v.k = "inst" THEN {v} ELSE {}

\* The instances nested in inst through declared relationships, at any depth.
RECURSIVE NestedInstances(_)
NestedInstances(inst) ==
  LET direct == UNION {InstancesIn(Prop(inst, key)) :
                         key \in RelationshipKeys(inst.ctor)}
  IN direct \cup UNION {NestedInstances(n) : n \in direct}

\* The nested instances with an identifier, over the whole input.
IdentifiedNested ==
  {n \in UNION {NestedInstances(top) : top \in TopInstances} :
     hasOwnProperty(n, "id")}

\* The entries of `included`, none when the member is absent.
IncludedItems ==
  IF "included" \in DOMAIN Doc.f THEN Doc.f.included.items ELSE << >>

\* Every element of an array input has an identifier, as a call with an array
\* is meant to require.
ArrayElementsIdentified ==
  IsArray(instance) =>
    \A i \in 1..Len(instance.items) : hasOwnProperty(instance.items[i], "id")

\* The identifier a relationship value stands for: the id of an instance,
\* the string itself otherwise.
IdentifierOf(e) == IF e.k = "inst" THEN Prop(e, "id") ELSE e

---------------------------------------------------------------------------
(* C1 *)

\* C1: a call with one instance that has no own `id` throws the
\* missing-identifier Error (and returns nothing) when requireId is left to
\* its default or given as true, and returns a document with `data` when
\* requireId is given as false.
C1_MissingIdThrowsUnlessNotRequired ==
  (pc = "done" /\ instance.k = "inst" /\ ~hasOwnProperty(instance, "id")) =>
    /\ RequireIdGiven \in {Undefined, Bool(TRUE)} => result = Throw(MissingId)
    /\ RequireIdGiven = Bool(FALSE) => (HasDoc /\ "data" \in DOMAIN Doc.f)

C1_Witness ==
  /\ ThrewMissingId
  /\ instance.k = "inst"
  /\ ~hasOwnProperty(instance, "id")
  /\ options = Undefined

(* C2 *)

\* C2: a call with an array in which some element, at whatever index, has no
\* own `id` throws the missing-identifier Error, whatever requireId is.
C2_ArrayRequiresIdOnEveryElement ==
  (pc = "done" /\ IsArray(instance)
     /\ \E i \in 1..Len(instance.items) :
          ~hasOwnProperty(instance.items[i], "id"))
    => result = Throw(MissingId)

(* C3 *)

\* C3: in the resource object of every top-level instance, the keys of
\* `attributes` are exactly the own property keys that the property schema
\* declares with `public` true or left out.
C3_AttributesArePublicSchemaKeys ==
  HasDoc =>
    \A pair \in DataPairs :
      \A key \in DOMAIN pair[1].f \cup DOMAIN pair[2].f.attributes.f :
        key \in DOMAIN pair[2].f.attributes.f
          <=> /\ key \in DOMAIN pair[1].f
              /\ key \in DOMAIN properties(pair[1].ctor)
              /\ properties(pair[1].ctor)[key] \in {Bool(TRUE), Undefined}

C3_Witness ==
  /\ HasDoc
  /\ instance.k = "inst"
  /\ {"name", "private", "excluded", "label"} \subseteq DOMAIN instance.f
  /\ DOMAIN Doc.f.data.f.attributes.f = {"name", "label"}

(* C4 *)

\* C4: no two entries of `included` have both the same type and the same id.
C4_IncludedDistinctByTypeAndId ==
  HasDoc =>
    \A i, j \in 1..Len(IncludedItems) :
      (IncludedItems[i].f.type = IncludedItems[j].f.type
         /\ IncludedItems[i].f.id = IncludedItems[j].f.id) => i = j

C4_Witness ==
  /\ HasDoc
  /\ instance.k = "inst"
  /\ Prop(instance, "children") = Arr(<< child1, child1b >>)
  /\ Prop(instance, "child") = Undefined
  /\ Len(IncludedItems) = 1

(* C5 *)

C6_RelationshipsKeysAreDeclaredNames ==
  HasDoc =>
    \A pair \in DataPairs :
      IF Len(relationshipSchema(pair[1].ctor)) = 0
        THEN "relationships" \notin DOMAIN pair[2].f
        ELSE /\ "relationships" \in DOMAIN pair[2].f
             /\ DOMAIN pair[2].f.relationships.f =
                  {relationshipSchema(pair[1].ctor)[i].key :
                     i \in 1..Len(relationshipSchema(pair[1].ctor))}
             /\ \A key \in DOMAIN pair[2].f.relationships.f :
                  (~hasOwnProperty(pair[1], "id") /\ ~hasOwnProperty(pair[1], key))
                    => pair[2].f.relationships.f[key] = Obj(NoProps)

C6_Witness ==
  /\ HasDoc
  /\ instance = Inst("test", [name |-> Str("test")])
  /\ Doc.f.data.f.relationships = Obj([children |-> Obj(NoProps), child |-> Obj(NoProps)])

(* C7 *)

\* C7: a relationship object has `links` exactly when its owner has an
\* identifier, and then self is /{plural}/{id}/relationships/{name} and
\* related is /{plural}/{id}/{name}.
C7_LinksIffOwnerHasId ==
  HasDoc =>
    \A pair \in DataPairs :
      \A i \in 1..Len(relationshipSchema(pair[1].ctor)) :
        LET key == relationshipSchema(pair[1].ctor)[i].key
            rel == pair[2].f.relationships.f[key]
            base == "/" \o pair[1].ctor \o "s/" \o pair[1].f.id.v
        IN IF hasOwnProperty(pair[1], "id")
             THEN /\ "links" \in DOMAIN rel.f
                  /\ rel.f.links =
                       Obj([self |-> Str(base \o "/relationships/" \o key),
                            related |-> Str(base \o "/" \o key)])
             ELSE "links" \notin DOMAIN rel.f

C7_Witness ==
  /\ HasDoc
  /\ instance.k = "inst"
  /\ instance.ctor = "test"
  /\ Prop(instance, "id") = Str("1")
  /\ Doc.f.data.f.relationships.f.child.f.links.f.self
       = Str("/tests/1/relationships/child")

(* C8 *)

\* A value as the result shows it: through JSON when the result is a text.
AsShown(v) == IF result.value.k = "text" THEN JSONValue(v) ELSE v

\* C8: for a relationship holding a single non-null value or an array, each
\* resource identifier of `data` has the type the relationship schema
\* declares and the id of the element (the element itself when it is an
\* identifier string); an array gives one identifier per element, in order.
C8_DataIdentifiesEachElement ==
  (HasDoc /\ ArrayElementsIdentified) =>
    \A pair \in DataPairs :
      \A i \in 1..Len(relationshipSchema(pair[1].ctor)) :
        LET decl == relationshipSchema(pair[1].ctor)[i]
            nested == Prop(pair[1], decl.key)
            rel == pair[2].f.relationships.f[decl.key]
            Identifier(e) == AsShown(Obj([id |-> IdentifierOf(e),
                                          type |-> Str(decl.type)]))
        IN /\ IsArray(nested) =>
                /\ "data" \in DOMAIN rel.f
                /\ rel.f.data.k = "arr"
                /\ Len(rel.f.data.items) = Len(nested.items)
                /\ \A j \in 1..Len(nested.items) :
                     rel.f.data.items[j] = Identifier(nested.items[j])
           /\ (~IsArray(nested) /\ nested \notin {Undefined, Null}) =>
                /\ "data" \in DOMAIN rel.f
                /\ rel.f.data = Identifier(nested)

(* C9 *)

\* The relationship value is absent, null or an empty array.
IsEmptyValue(nested) ==
  \/ nested \in {Undefined, Null}
  \/ IsArray(nested) /\ Len(nested.items) = 0

\* C9 as claimed: a relationship whose value is absent, null or an empty
\* array has no `data` member.
C9_NoDataWhenAbsentNullOrEmpty ==
  HasDoc =>
    \A pair \in DataPairs :
      \A i \in 1..Len(relationshipSchema(pair[1].ctor)) :
        LET key == relationshipSchema(pair[1].ctor)[i].key
        IN IsEmptyValue(Prop(pair[1], key))
             => "data" \notin DOMAIN pair[2].f.relationships.f[key].f

\* C9 as amended: a relationship whose value is absent or null has no
\* `data` member, one whose value is an empty array has `data` as an empty
\* array, and `data` is present exactly when the value is an array or a
\* truthy single value.
C9_NoDataWhenAbsentOrNull ==
  HasDoc =>
    \A pair \in DataPairs :
      \A i \in 1..Len(relationshipSchema(pair[1].ctor)) :
        LET key == relationshipSchema(pair[1].ctor)[i].key
            nested == Prop(pair[1], key)
            rel == pair[2].f.relationships.f[key]
        IN /\ nested \in {Undefined, Null} => "data" \notin DOMAIN rel.f
           /\ (IsArray(nested) /\ Len(nested.items) = 0)
                => ("data" \in DOMAIN rel.f /\ rel.f.data = Arr(<< >>))
           /\ "data" \in DOMAIN rel.f <=> (IsArray(nested) \/ Truthy(nested))

C9_Witness ==
  /\ HasDoc
  /\ instance.k = "inst"
  /\ Prop(instance, "children") = Arr(<< >>)
  /\ Prop(instance, "child") = Null
  /\ Doc.f.data.f.relationships.f.children.f.data = Arr(<< >>)
  /\ "data" \notin DOMAIN Doc.f.data.f.relationships.f.child.f

(* C10 *)

\* C10: `included` holds a resource object for every instance with an
\* identifier nested in the input through declared relationships, at any
\* depth and through single-valued and array-valued relationships alike.
C10_IncludedReachesEveryNestedInstance ==
  (HasDoc /\ ArrayElementsIdentified) =>
    \A n \in IdentifiedNested :
      \E i \in 1..Len(IncludedItems) :
        /\ IncludedItems[i].f.type = Str(n.ctor)
        /\ IncludedItems[i].f.id = n.f.id

(* C11 *)

\* The positions of an array-valued relationship that hold identifier strings.
StringPositions(nested) ==
  IF IsArray(nested)
    THEN {j \in 1..Len(nested.items) : nested.items[j].k = "str"}
    ELSE {}

\* Some relationship of inst holds an identifier string, alone or in an array.
HoldsString(inst) ==
  \E key \in RelationshipKeys(inst.ctor) :
    Prop(inst, key).k = "str" \/ StringPositions(Prop(inst, key)) # {}

\* C11: an identifier string held by a relationship, alone or as an element
\* of an array, gives no entry of `included` (every entry is the resource
\* object of a nested instance with an identifier); it gives the resource
\* identifier {id: the string, type: the declared type} in `data`, and a
\* call with one identified instance holding such strings returns a document.
C11_StringsOnlyIdentify ==
  /\ (pc = "done" /\ instance.k = "inst" /\ hasOwnProperty(instance, "id")
        /\ HoldsString(instance)) => HasDoc
  /\ HasDoc =>
       /\ \A i \in 1..Len(IncludedItems) :
            \E n \in IdentifiedNested :
              /\ IncludedItems[i].f.type = Str(n.ctor)
              /\ IncludedItems[i].f.id = n.f.id
       /\ \A pair \in DataPairs :
            \A i \in 1..Len(relationshipSchema(pair[1].ctor)) :
              LET decl == relationshipSchema(pair[1].ctor)[i]
                  nested == Prop(pair[1], decl.key)
                  rel == pair[2].f.relationships.f[decl.key]
              IN /\ nested.k = "str" =>
                      rel.f.data = Obj([id |-> nested, type |-> Str(decl.type)])
                 /\ \A j \in StringPositions(nested) :
                      rel.f.data.items[j] =
                        Obj([id |-> nested.items[j], type |-> Str(decl.type)])

C11_Witness ==
  /\ HasDoc
  /\ instance.k = "inst"
  /\ Prop(instance, "child") = Str("2")
  /\ Prop(instance, "children") = Arr(<< Str("2"), Str("2") >>)
  /\ "included" \notin DOMAIN Doc.f
  /\ Doc.f.data.f.relationships.f.child.f.data
       = Obj([id |-> Str("2"), type |-> Str("single")])
  /\ Len(Doc.f.data.f.relationships.f.children.f.data.items) = 2

(* C12 *)

\* The value the caller gave for stringify, if any.
StringifyGiven == Prop(options, "stringify")

\* C12: a call with no instance or with null returns the text "null" when
\* stringify is left to its default or given as true, and the null value
\* when stringify is given as false; it returns no document.
C12_NoInstanceGivesNull ==
  (method = "toJSON" /\ pc = "done" /\ instance \in {Undefined, Null}) =>
    /\ StringifyGiven \in {Undefined, Bool(TRUE)}
         => result = Return([k |-> "text", json |-> Null])
    /\ StringifyGiven = Bool(FALSE) => result = Return(Null)
    /\ ~HasDoc

C12_Witness ==
  /\ method = "toJSON"
  /\ pc = "done"
  /\ instance = Undefined
  /\ options = Undefined
  /\ result = Return([k |-> "text", json |-> Null])

(* C13 *)

\* C13: for an array of n instances that all have identifiers, `data` is an
\* array of n resource objects, and the i-th is the `data` of the document
\* that a call with the i-th element alone and the same options returns.
C13_ArrayDataIsEachElementsData ==
  (pc = "done" /\ IsArray(instance) /\ ArrayElementsIdentified) =>
    /\ HasDoc
    /\ Doc.f.data.k = "arr"
    /\ Len(Doc.f.data.items) = Len(instance.items)
    /\ \A i \in 1..Len(instance.items) :
         LET alone == toJSON(instance.items[i], options)
         IN /\ alone.k = "return"
            /\ alone.value.k = result.value.k
            /\ Doc.f.data.items[i] =
                 (IF alone.value.k = "text"
                    THEN alone.value.json ELSE alone.value).f.data

C13_Witness ==
  /\ HasDoc
  /\ IsArray(instance)
  /\ Len(instance.items) = 2
  /\ ArrayElementsIdentified
  /\ instance.items[1] # instance.items[2]
  /\ Doc.f.data.items[1].f.id = Str("1")
  /\ Doc.f.data.items[2].f.id = Str("3")
  /\ "data" \in DOMAIN Doc.f.data.items[2].f.relationships.f.children.f

(* C14 *)

\* The value errorsToJSON returned, read through JSON when it is a text.
ResponseShown == IF response.k = "text" THEN response.json ELSE response

\* The error object made of an Error-like value: detail is its message, and
\* status is its status, undefined (left out of a text) when it has none.
IsErrorObjectOf(object, error) ==
  /\ object.k = "obj"
  /\ DOMAIN object.f \subseteq {"detail", "status"}
  /\ Prop(object, "detail") = Prop(error, "message")
  /\ Prop(object, "status") = Prop(error, "status")

\* C14: errorsToJSON returns {errors: [...]}, a text when stringify is left
\* out or true and an object when it is false; one Error-like value gives
\* one error object, an array of k values gives k error objects in the
\* order of the input, and each error object has the message as detail and
\* the status, if any, as status.
C14_ErrorsAreWrappedInOrder ==
  (method = "errorsToJSON" /\ pc = "done") =>
    /\ response.k = (IF flag \in {Undefined, Bool(TRUE)} THEN "text" ELSE "obj")
    /\ ResponseShown.k = "obj"
    /\ DOMAIN ResponseShown.f = {"errors"}
    /\ ResponseShown.f.errors.k = "arr"
    /\ IF IsArray(errors)
         THEN /\ Len(ResponseShown.f.errors.items) = Len(errors.items)
              /\ \A i \in 1..Len(errors.items) :
                   IsErrorObjectOf(ResponseShown.f.errors.items[i], errors.items[i])
         ELSE /\ Len(ResponseShown.f.errors.items) = 1
              /\ IsErrorObjectOf(ResponseShown.f.errors.items[1], errors)

C14_Witness ==
  /\ method = "errorsToJSON"
  /\ pc = "done"
  /\ flag = Bool(FALSE)
  /\ errors = Arr(<< Obj([message |-> Str("test")]),
                     Obj([message |-> Str("not found"), status |-> Str("404")]) >>)
  /\ response =
       Obj([errors |->
              Arr(<< Obj([detail |-> Str("test"), status |-> Undefined]),
                     Obj([detail |-> Str("not found"), status |-> Str("404")]) >>)])

(* C16 *)

\* The flattened list of resource objects collected for the input, before
\* duplicates are removed.
Collected ==
  IF IsArray(instance)
    THEN flatten(MapBuildCompoundDocuments(instance.items))
    ELSE buildCompoundDocuments(instance)

\* The positions of a list of resource objects whose (type, id) pair occurs
\* at no earlier position.
FirstOccurrences(list) ==
  {i \in 1..Len(list) :
     \A j \in 1..(i - 1) :
       ~ (list[j].f.type = list[i].f.type /\ list[j].f.id = list[i].f.id)}

\* The m-th of a set of positions, counted from the front.
NthOf(positions, m) ==
  CHOOSE i \in positions : Cardinality({j \in positions : j <= i}) = m

\* `kept` is `list` restricted to the positions `firsts`, in order.
IsRestriction(kept, list, firsts) ==
  /\ Len(kept) = Cardinality(firsts)
  /\ \A m \in 1..Len(kept) : kept[m] = AsShown(list[NthOf(firsts, m)])

\* `kept` is `list` restricted to the first occurrences of its pairs.
KeepsFirstOccurrences(kept, list) ==
  IsRestriction(kept, list, FirstOccurrences(list))

\* C16: `included` is the collected list restricted to the first occurrence
\* of every (type, id) pair: it has one entry per pair, each entry is the
\* first collected resource object of its pair as it stands (nothing of a
\* later one is merged in), and the entries keep their relative order.
C16_IncludedKeepsFirstOccurrences ==
  HasDoc => KeepsFirstOccurrences(IncludedItems, Collected)

C16_Witness ==
  /\ HasDoc
  /\ instance.k = "inst"
  /\ Prop(instance, "children") = Arr(<< child1, child1b >>)
  /\ Prop(instance, "child") = single2
  /\ Len(Collected) = 3
  /\ Len(IncludedItems) = 2
  /\ IncludedItems[1].f.type = Str("child")
  /\ IncludedItems[1].f.attributes.f.name = Str("child1")
  /\ IncludedItems[2].f.type = Str("single")
  /\ IncludedItems[2].f.id = IncludedItems[1].f.id

(* C18 *)

\* The resource identifiers of a `data` member: its elements, or itself.
IdentifiersOf(data) ==
  IF IsArray(data) THEN {data.items[j] : j \in 1..Len(data.items)} ELSE {data}

\* C18: every resource identifier in the `data` of a relationship has a
\* string as its id.
C18_IdentifierIdsAreStrings ==
  (HasDoc /\ ArrayElementsIdentified) =>
    \A pair \in DataPairs :
      \A i \in 1..Len(relationshipSchema(pair[1].ctor)) :
        LET rel == pair[2].f.relationships.f[relationshipSchema(pair[1].ctor)[i].key]
        IN "data" \in DOMAIN rel.f =>
             \A identifier \in IdentifiersOf(rel.f.data) : identifier.f.id.k = "str"

(* C17 *)

\* The instances held by the arrays of the instances of S.
Successors(S) == UNION {graph[n] : n \in S}

\* S with everything reached from it in at most k steps.
RECURSIVE Closure(_, _)
Closure(S, k) == IF k = 0 THEN S ELSE Closure(S \cup Successors(S), k - 1)

\* The instances reached from n through one array or more.
Descendants(n) == Closure(graph[n], Len(NodeOrder))

\* No instance of the graph of the call is reached from itself.
Acyclic == \A n \in {Root} \cup Descendants(Root) : n \notin Descendants(n)

\* The calls made so far are within what the size of the graph allows.
CallsBounded ==
  /\ Depth <= Cardinality(Nodes)
  /\ calls <= 2 ^ (Cardinality(Nodes) - 1)
  /\ flattens <= calls * (1 + MaxNestedLen)

\* C17: on a graph without a cycle the call returns, and until then the
\* frames of buildCompoundDocuments on the stack are no more than the
\* instances, its calls no more than the paths a graph of that size can
\* have, and the calls of flatten no more than one per call and per item.
C17_AcyclicGraphTerminates ==
  /\ Acyclic => <>(pc = "done")
  /\ [](Acyclic => CallsBounded)

C17_Witness ==
  /\ pc = "done"
  /\ Acyclic
  /\ graph[Root] = {NodeOrder[2], NodeOrder[3]}
  /\ graph[NodeOrder[2]] = {NodeOrder[3]}
  /\ calls = 4
  /\ Len(result.value.f.included.items) = 2
====
